---- MODULE Spec2Model ----
(***************************************************************************)
(* Model of the resumable e-mail scraper (aslocation.py / keyword001.py):  *)
(* the checkpoint file, the extraction regex, the WebDriver session        *)
(* lifecycle and the loop of scrape_google_emails, with the __main__       *)
(* block around it.                                                        *)
(*                                                                         *)
(* Strings of the program are sequences of one-character strings; the     *)
(* checkpoint file is the sequence of JSON tokens json.dump writes.        *)
(***************************************************************************)
EXTENDS Integers, Sequences, FiniteSets, TLC

(***************************************************************************)
(* Bounds                                                                  *)
(***************************************************************************)
\* longest work-item sequence handed to scrape_google_emails
MaxItems == 2

(***************************************************************************)
(* Characters and str ordering                                             *)
(***************************************************************************)
LowerChars == {"a","b","c","d","e","f","g","h","i","j","k","l","m",
               "n","o","p","q","r","s","t","u","v","w","x","y","z"}
UpperChars == {"A","B","C","D","E","F","G","H","I","J","K","L","M",
               "N","O","P","Q","R","S","T","U","V","W","X","Y","Z"}
DigitChars == {"0","1","2","3","4","5","6","7","8","9"}

\* [a-zA-Z]
Letters == LowerChars \cup UpperChars
\* [a-zA-Z0-9._%+-]
LocalChars == Letters \cup DigitChars \cup {".", "_", "%", "+", "-"}
\* [a-zA-Z0-9.-]
DomainChars == Letters \cup DigitChars \cup {".", "-"}

\* the characters of the model in code point order (Python compares str by
\* code point)
CharOrder ==
    << " ", "%", "+", "-", ".",
       "0","1","2","3","4","5","6","7","8","9",
       "<", ">", "@",
       "A","B","C","D","E","F","G","H","I","J","K","L","M",
       "N","O","P","Q","R","S","T","U","V","W","X","Y","Z",
       "_",
       "a","b","c","d","e","f","g","h","i","j","k","l","m",
       "n","o","p","q","r","s","t","u","v","w","x","y","z" >>

Ord(c) == CHOOSE n \in 1..Len(CharOrder) : CharOrder[n] = c

\* a < b for two str values
StrLess(a, b) ==
    \E n \in 1..(Len(b)) :
        /\ n <= Len(a) + 1
        /\ \A m \in 1..(n-1) : a[m] = b[m]
        /\ \/ n = Len(a) + 1
           \/ Ord(a[n]) < Ord(b[n])

SeqToSet(s) == {s[n] : n \in 1..Len(s)}

SetMax(S) == CHOOSE x \in S : \A y \in S : y <= x
SetMin(S) == CHOOSE x \in S : \A y \in S : x <= y

(***************************************************************************)
(* The extraction step:                                                    *)
(*   set(re.findall(r'[a-zA-Z0-9._%+-]+@[a-zA-Z0-9.-]+\.(?!png|jpg|jpeg)   *)
(*                    [a-zA-Z]{2,}', page_html))                           *)
(*   sorted(list(emails))                                                  *)
(***************************************************************************)
\* index of the last character of the longest run of characters of cls that
\* starts at n (n-1 when text[n] is not in cls): a greedy  [cls]*
RunEnd(text, n, cls) ==
    CHOOSE j \in (n-1)..Len(text) :
        /\ \A m \in n..j : text[m] \in cls
        /\ (j = Len(text) \/ text[j+1] \notin cls)

StartsWith(text, n, word) ==
    /\ n + Len(word) - 1 <= Len(text)
    /\ SubSeq(text, n, n + Len(word) - 1) = word

\* the negative lookahead (?!png|jpg|jpeg) fails at n
LookaheadHit(text, n) ==
    \/ StartsWith(text, n, <<"p","n","g">>)
    \/ StartsWith(text, n, <<"j","p","g">>)
    \/ StartsWith(text, n, <<"j","p","e","g">>)

\* the domain ends at de: a literal dot follows, the lookahead passes and at
\* least two letters follow the dot
LabelAfter(text, de) ==
    /\ de + 1 <= Len(text)
    /\ text[de + 1] = "."
    /\ ~LookaheadHit(text, de + 2)
    /\ RunEnd(text, de + 2, Letters) >= de + 3

\* where the regex matches from start s: index of the last matched character,
\* 0 when it does not match at s.  The local part is the whole run up to "@"
\* ("@" is not in its class); the domain is the longest one, within the greedy
\* run, that the backtracking accepts; the label is the greedy letter run.
MatchEnd(text, s) ==
    LET le == RunEnd(text, s, LocalChars) IN
    IF le < s \/ le + 1 > Len(text) \/ text[le + 1] # "@" THEN 0
    ELSE LET ds   == le + 2
             dmax == RunEnd(text, ds, DomainChars)
             cand == {de \in ds..(dmax - 1) : LabelAfter(text, de)}
         IN  IF cand = {} THEN 0
             ELSE RunEnd(text, SetMax(cand) + 2, Letters)

\* re.findall: leftmost match from pos, then on from the end of that match
RECURSIVE FindAll(_, _)
FindAll(text, pos) ==
    LET starts == {s \in pos..Len(text) : MatchEnd(text, s) # 0} IN
    IF starts = {} THEN << >>
    ELSE LET s == SetMin(starts)
             e == MatchEnd(text, s)
         IN  <<SubSeq(text, s, e)>> \o FindAll(text, e + 1)

\* sorted(list(S)) for a set of str
RECURSIVE Sorted(_)
Sorted(S) ==
    IF S = {} THEN << >>
    ELSE LET least == CHOOSE x \in S : \A y \in S \ {x} : StrLess(x, y)
         IN  <<least>> \o Sorted(S \ {least})

Extract(page_html) == Sorted(SeqToSet(FindAll(page_html, 1)))

(***************************************************************************)
(* JSON text of the checkpoint file, as the tokens json.dump writes.       *)
(* A str token carries its characters; every other token is punctuation.   *)
(* Python values: a dict is [kind |-> "dict", items |-> <<key, value>>     *)
(* pairs in insertion order], a list is [kind |-> "list", items |-> strs]. *)
(***************************************************************************)
Str(s) == [t |-> "s", v |-> s]
LBrace == [t |-> "p", v |-> <<"{">>]
RBrace == [t |-> "p", v |-> <<"}">>]
LBrack == [t |-> "p", v |-> <<"[">>]
RBrack == [t |-> "p", v |-> <<"]">>]
Colon  == [t |-> "p", v |-> <<":">>]
Comma  == [t |-> "p", v |-> <<",">>]

PyDict(items) == [kind |-> "dict", items |-> items]
PyList(items) == [kind |-> "list", items |-> items]
EmptyDict == PyDict(<< >>)

Keys(d) == {d.items[n][1] : n \in 1..Len(d.items)}

\* d[k]
DictGet(d, k) == d.items[CHOOSE n \in 1..Len(d.items) : d.items[n][1] = k][2]

\* d[k] = v that leaves out a key whose value is empty
DictSet_DropsEmpty(d, k, v) ==
    IF v = << >> THEN d
    ELSE IF k \in Keys(d)
    THEN PyDict([n \in 1..Len(d.items) |->
                    IF d.items[n][1] = k THEN <<k, v>> ELSE d.items[n]])
    ELSE PyDict(Append(d.items, <<k, v>>))

\* d[k] = v  (a new key goes last, an existing key keeps its place)
DictSet(d, k, v) ==
    IF k \in Keys(d)
    THEN PyDict([n \in 1..Len(d.items) |->
                    IF d.items[n][1] = k THEN <<k, v>> ELSE d.items[n]])
    ELSE PyDict(Append(d.items, <<k, v>>))

\* a membership test that never finds the key
Contains_Never(val, k) == FALSE

\* k in container  (dict: a key; list: an element)
Contains(val, k) ==
    IF val.kind = "dict" THEN k \in Keys(val) ELSE k \in SeqToSet(val.items)

RECURSIVE DumpStrs(_)
DumpStrs(l) ==
    IF l = << >> THEN << >>
    ELSE IF Len(l) = 1 THEN <<Str(l[1])>>
    ELSE <<Str(l[1]), Comma>> \o DumpStrs(Tail(l))

DumpArray(l) == <<LBrack>> \o DumpStrs(l) \o <<RBrack>>

RECURSIVE DumpMembers(_)
DumpMembers(items) ==
    IF items = << >> THEN << >>
    ELSE LET m == <<Str(items[1][1]), Colon>> \o DumpArray(items[1][2]) IN
         IF Len(items) = 1 THEN m
         ELSE m \o <<Comma>> \o DumpMembers(Tail(items))

\* json.dump(email_results, f, indent=4)
json_dump(val) ==
    IF val.kind = "dict"
    THEN <<LBrace>> \o DumpMembers(val.items) \o <<RBrace>>
    ELSE DumpArray(val.items)

ParseFail == [ok |-> FALSE, val |-> << >>, next |-> 0]

\* str ("," str)* "]"  from token n
RECURSIVE ParseElems(_, _, _)
ParseElems(toks, n, acc) ==
    IF n + 1 > Len(toks) \/ toks[n].t # "s" THEN ParseFail
    ELSE LET acc2 == Append(acc, toks[n].v) IN
         IF toks[n + 1] = RBrack THEN [ok |-> TRUE, val |-> acc2, next |-> n + 2]
         ELSE IF toks[n + 1] = Comma THEN ParseElems(toks, n + 2, acc2)
         ELSE ParseFail

\* an array of str from token n
ParseArray(toks, n) ==
    IF n + 1 > Len(toks) \/ toks[n] # LBrack THEN ParseFail
    ELSE IF toks[n + 1] = RBrack THEN [ok |-> TRUE, val |-> << >>, next |-> n + 2]
    ELSE ParseElems(toks, n + 1, << >>)

\* str ":" array ("," str ":" array)* "}"  from token n
RECURSIVE ParseMembers(_, _, _)
ParseMembers(toks, n, acc) ==
    IF n + 1 > Len(toks) \/ toks[n].t # "s" \/ toks[n + 1] # Colon THEN ParseFail
    ELSE LET a == ParseArray(toks, n + 2) IN
         IF ~a.ok \/ a.next > Len(toks) THEN ParseFail
         ELSE LET acc2 == DictSet(acc, toks[n].v, a.val) IN
              IF toks[a.next] = RBrace
              THEN [ok |-> TRUE, val |-> acc2, next |-> a.next + 1]
              ELSE IF toks[a.next] = Comma THEN ParseMembers(toks, a.next + 1, acc2)
              ELSE ParseFail

ParseObject(toks, n) ==
    IF n + 1 > Len(toks) \/ toks[n] # LBrace THEN ParseFail
    ELSE IF toks[n + 1] = RBrace THEN [ok |-> TRUE, val |-> EmptyDict, next |-> n + 2]
    ELSE ParseMembers(toks, n + 1, EmptyDict)

\* json.loads(content) for the documents of this model: an object whose values
\* are arrays of str, or an array of str.  ok = FALSE is JSONDecodeError
\* (also raised for data after the document).
json_loads(toks) ==
    IF toks = << >> THEN ParseFail
    ELSE IF toks[1] = LBrace
    THEN LET r == ParseObject(toks, 1) IN
         IF r.ok /\ r.next = Len(toks) + 1 THEN r ELSE ParseFail
    ELSE IF toks[1] = LBrack
    THEN LET r == ParseArray(toks, 1) IN
         IF r.ok /\ r.next = Len(toks) + 1
         THEN [ok |-> TRUE, val |-> PyList(r.val), next |-> r.next]
         ELSE ParseFail
    ELSE ParseFail

(***************************************************************************)
(* The checkpoint file and load_checkpoint / save_checkpoint               *)
(***************************************************************************)
NoFile == [exists |-> FALSE, toks |-> << >>]
FileOf(toks) == [exists |-> TRUE, toks |-> toks]

\* load_checkpoint: {} when the file is absent, empty, not JSON, or reading
\* raises (ioerr); otherwise whatever json.loads returns
load_checkpoint(f, ioerr) ==
    IF ~f.exists THEN EmptyDict
    ELSE IF ioerr THEN EmptyDict
    ELSE IF f.toks = << >> THEN EmptyDict
    ELSE LET r == json_loads(f.toks) IN
         IF r.ok THEN r.val ELSE EmptyDict

\* how a call of save_checkpoint can go: it completes; open() raises and the
\* file is untouched; open(.., "w") has truncated the file and the write
\* raises after cut tokens; or the process dies at that point.  A write that
\* raises leaves nothing or all but the last token (the next save overwrites
\* the file whatever the cut was); a dying process leaves any proper prefix.
SaveOutcomes(val) ==
    LET n == Len(json_dump(val)) IN
    {[how |-> "ok", cut |-> n], [how |-> "open_fails", cut |-> 0]}
    \cup {[how |-> "write_fails", cut |-> c] : c \in {0, n - 1}}
    \cup {[how |-> "crash", cut |-> c] : c \in 0..(n - 1)}

\* the file after save_checkpoint(val) went as o
save_checkpoint(f, val, o) ==
    IF o.how = "open_fails" THEN f
    ELSE FileOf(SubSeq(json_dump(val), 1, o.cut))

(***************************************************************************)
(* Inputs of the model                                                     *)
(***************************************************************************)
\* work items: the locations of aslocation.py; in keyword001.py the keys
\* "<keyword> | USA", which its loop handles the same way (lines 108-154)
Austin == <<"A","u","s","t","i","n">>
Dallas == <<"D","a","l","l","a","s">>
Waco   == <<"W","a","c","o">>
Items  == {Austin, Dallas, Waco}

a_x_com == <<"a","@","x",".","c","o","m">>
b_y_org == <<"b","@","y",".","o","r","g">>

\* page sources the browser can return
PageAX   == <<"<">> \o a_x_com \o <<">">>
PageNone == <<"n","o"," ","m","a","i","l">>
PageTwo  == b_y_org \o <<" ">> \o a_x_com \o <<" ">> \o b_y_org
Pages    == {PageAX, PageNone, PageTwo}

\* work-item sequences a loader returns: no duplicates
WorkLists ==
    {w \in UNION {[1..n -> Items] : n \in 0..MaxItems} :
        \A m, n \in 1..Len(w) : m # n => w[m] # w[n]}

\* contents of emails_result.json when a run starts: absent, empty, a
\* checkpoint of an earlier run, one cut short, and a JSON array
OldRecord == PyDict(<< <<Austin, <<b_y_org>> >> >>)
StartFiles ==
    {NoFile,
     FileOf(<< >>),
     FileOf(json_dump(OldRecord)),
     FileOf(json_dump(PyDict(<< <<Dallas, << >> >> >>))),
     FileOf(SubSeq(json_dump(OldRecord), 1, 4)),
     FileOf(json_dump(PyList(<<Austin>>)))}

(***************************************************************************)
(* State                                                                   *)
(***************************************************************************)
VARIABLES
    pc,             \* where the script is
    locations,      \* the work-item sequence (locations / keyword keys)
    idx,            \* position of the for loop in locations
    file,           \* emails_result.json
    email_results,  \* the in-memory record
    driver,         \* the driver variable: 0 is None, else a session id
    sessions,       \* number of sessions webdriver.Chrome has created
    live,           \* sessions on which quit() has not been called
    exitStatus,     \* process exit status, -1 while running
    loaded,         \* history: what load_checkpoint returned at the start
    saved,          \* history: argument of the last save_checkpoint that completed
    saveArg,        \* history: argument of the last save_checkpoint call
    nextRun,        \* what load_checkpoint returns to the run after a crash
    log             \* history: the calls made, in order

mainVars == <<pc, locations, idx, file, email_results, driver, sessions, live,
              exitStatus, loaded, saved, saveArg, nextRun, log>>

\* State of the parts that are checked on their own: the scroll loop, the
\* extraction step and the two Excel loaders
VARIABLES
    spc,            \* where the scroll loop is
    heights,        \* what document.body.scrollHeight returns, call by call
    measured,       \* number of scrollHeight measurements made
    scrolls,        \* number of window.scrollTo calls made
    last_height,    \* the variable last_height
    new_height,     \* the variable new_height
    epc,            \* where the extraction step is
    page_html,      \* the page source handed to the extraction
    emails,         \* sorted(list(emails)), the ResultSet
    lpc,            \* where the loader is
    rows,           \* the cells of the Excel column, top to bottom
    unique_items    \* what the loader returns

scrollVars == <<spc, heights, measured, scrolls, last_height, new_height>>
extractVars == <<epc, page_html, emails>>
loaderVars == <<lpc, rows, unique_items>>
sideVars == <<scrollVars, extractVars, loaderVars>>

vars == <<mainVars, sideVars>>

ScrollIdle ==
    /\ spc = "idle" /\ heights = << >> /\ measured = 0 /\ scrolls = 0
    /\ last_height = 0 /\ new_height = 0
ExtractIdle == epc = "idle" /\ page_html = << >> /\ emails = << >>
LoaderIdle == lpc = "idle" /\ rows = << >> /\ unique_items = << >>

None == 0
NoValue == [valid |-> FALSE, val |-> EmptyDict]
Some(val) == [valid |-> TRUE, val |-> val]

Event(e, item, out, page) == [e |-> e, item |-> item, out |-> out, page |-> page]
Logged(e, item, out, page) == Append(log, Event(e, item, out, page))

Init ==
    /\ pc = "main"
    /\ locations \in WorkLists
    /\ idx = 1
    /\ file \in StartFiles
    /\ email_results = EmptyDict
    /\ driver = None
    /\ sessions = 0
    /\ live = {}
    /\ exitStatus = -1
    /\ loaded = NoValue
    /\ saved = NoValue
    /\ saveArg = NoValue
    /\ nextRun = NoValue
    /\ log = << >>
    /\ ScrollIdle /\ ExtractIdle /\ LoaderIdle

(***************************************************************************)
(* save_checkpoint as a step of an action: the file, the history and,      *)
(* when the process dies in the write, the crash                           *)
(***************************************************************************)
\* a save whose failure ends the run
DoSave_AbortsOnFailure(val, o, nextPc, lg) ==
    /\ file' = save_checkpoint(file, val, o)
    /\ saveArg' = Some(val)
    /\ saved' = IF o.how = "ok" THEN Some(val) ELSE saved
    /\ log' = Append(lg, Event("save", << >>, o.how, << >>))
    /\ pc' = IF o.how = "crash" THEN "crashed"
             ELSE IF o.how = "ok" THEN nextPc
             ELSE "finally"

DoSave(val, o, nextPc, lg) ==
    /\ file' = save_checkpoint(file, val, o)
    /\ saveArg' = Some(val)
    /\ saved' = IF o.how = "ok" THEN Some(val) ELSE saved
    /\ log' = Append(lg, Event("save", << >>, o.how, << >>))
    /\ pc' = IF o.how = "crash" THEN "crashed" ELSE nextPc

(***************************************************************************)
(* __main__                                                                *)
(***************************************************************************)
\* the os.path.exists checks, the loader's result, exit(1) on no work items
MainStart ==
    /\ UNCHANGED sideVars
    /\ pc = "main"
    /\ \E present \in BOOLEAN :
        IF ~present
        THEN \* FileNotFoundError, caught by the except Exception of __main__
             /\ pc' = "exited"
             /\ exitStatus' = 0
             /\ log' = Logged("main", << >>, "missing_input", << >>)
        ELSE IF locations = << >>
        THEN /\ pc' = "exited"
             /\ exitStatus' = 1
             /\ log' = Logged("main", << >>, "no_items", << >>)
        ELSE /\ pc' = "scrape"
             /\ exitStatus' = exitStatus
             /\ log' = log
    /\ UNCHANGED <<locations, idx, file, email_results, driver, sessions, live,
                   loaded, saved, saveArg, nextRun>>

\* scrape_google_emails returned or raised: the summary, then the end of the
\* script; an exception is caught and logged by the except Exception
MainEnd ==
    /\ UNCHANGED sideVars
    /\ pc \in {"returned", "raised"}
    /\ pc' = "exited"
    /\ exitStatus' = 0
    /\ UNCHANGED <<locations, idx, file, email_results, driver, sessions, live,
                   loaded, saved, saveArg, nextRun, log>>

(***************************************************************************)
(* scrape_google_emails                                                    *)
(***************************************************************************)
\* email_results = load_checkpoint(); driver = None
LoadCheckpoint ==
    /\ UNCHANGED sideVars
    /\ pc = "scrape"
    /\ \E ioerr \in BOOLEAN :
        /\ email_results' = load_checkpoint(file, ioerr)
        /\ loaded' = Some(load_checkpoint(file, ioerr))
    /\ driver' = None
    /\ pc' = "init"
    /\ UNCHANGED <<locations, idx, file, sessions, live, exitStatus, saved,
                   saveArg, nextRun, log>>

\* driver = initialize_driver(..); if not driver: raise Exception(..)
InitDriver ==
    /\ UNCHANGED sideVars
    /\ pc = "init"
    /\ \E out \in {"driver", "none", "raise"} :
        /\ log' = Logged("create", << >>, out, << >>)
        /\ IF out = "driver"
           THEN /\ sessions' = sessions + 1
                /\ driver' = sessions + 1
                /\ live' = live \cup {sessions + 1}
                /\ pc' = "loop"
           ELSE /\ UNCHANGED <<sessions, driver, live>>
                /\ pc' = "except"
    /\ UNCHANGED <<locations, idx, file, email_results, exitStatus, loaded,
                   saved, saveArg, nextRun>>

\* for location in locations: if location in email_results: continue
LoopHead ==
    /\ UNCHANGED sideVars
    /\ pc = "loop"
    /\ IF idx > Len(locations)
       THEN /\ pc' = "finally"
            /\ UNCHANGED <<idx, log>>
       ELSE IF Contains(email_results, locations[idx])
       THEN /\ pc' = "loop"
            /\ idx' = idx + 1
            /\ log' = Logged("skip", locations[idx], "skip", << >>)
       ELSE /\ pc' = "try"
            /\ UNCHANGED <<idx, log>>
    /\ UNCHANGED <<locations, file, email_results, driver, sessions, live,
                   exitStatus, loaded, saved, saveArg, nextRun>>

\* the inner try: driver.get, the scroll loop, page_source, the extraction,
\* email_results[location] = .., save_checkpoint
Navigate ==
    /\ UNCHANGED sideVars
    /\ pc = "try"
    /\ \E out \in {"ok", "wde", "other"}, page \in Pages :
        LET item == locations[idx] IN
        IF out = "ok" /\ email_results.kind = "dict"
        THEN LET rec == DictSet(email_results, item, Extract(page)) IN
             /\ email_results' = rec
             /\ \E o \in SaveOutcomes(rec) :
                    DoSave(rec, o, "loop", Logged("get", item, "ok", page))
             /\ idx' = idx + 1
        ELSE IF out = "ok"
        THEN \* item assignment on a list raises TypeError
             /\ pc' = "except"
             /\ log' = Logged("get", item, "ok", page)
             /\ UNCHANGED <<email_results, idx, file, saved, saveArg>>
        ELSE /\ pc' = IF out = "wde" THEN "recover" ELSE "except"
             /\ log' = Logged("get", item, out, << >>)
             /\ UNCHANGED <<email_results, idx, file, saved, saveArg>>
    /\ UNCHANGED <<locations, driver, sessions, live, exitStatus, loaded, nextRun>>

\* a handler that goes on with the loop although no driver was created
RecoverPc_KeepsGoing(q, out) ==
    IF q = "raise" \/ out = "raise" THEN "except" ELSE "loop"

\* a handler that returns although the driver was restarted
RecoverPc_GivesUp(q, out) ==
    IF q = "raise" \/ out = "raise" THEN "except" ELSE "finally"

\* where the except WebDriverException handler leaves: an exception of
\* driver.quit() or of initialize_driver goes to the outer handler, no driver
\* is a return (through finally), a new driver is a continue
RecoverPc(q, out) ==
    IF q = "raise" \/ out = "raise" THEN "except"
    ELSE IF out = "none" THEN "finally"
    ELSE "loop"

\* a handler that does not quit the failed driver
QuitLive_Skipped(l, d) == l

\* the live sessions after  if driver: driver.quit()  in the handler
QuitLive(l, d) == IF d = None THEN l ELSE l \ {d}

\* a handler that goes back to the same item
ContinueIdx_SameItem(i) == i

\* the position of the for loop after the handler's continue: the next item
ContinueIdx(i) == i + 1

\* except WebDriverException: driver.quit(); driver = initialize_driver(..);
\* no driver: save_checkpoint and return; else continue
Recover ==
    /\ UNCHANGED sideVars
    /\ pc = "recover"
    /\ \E q \in {"ok", "raise"}, out \in {"driver", "none", "raise"} :
        LET item == locations[idx] IN
        /\ live' = QuitLive(live, driver) \cup
                   (IF q = "ok" /\ out = "driver" THEN {sessions + 1} ELSE {})
        /\ IF q = "raise"
           THEN /\ pc' = RecoverPc(q, out)
                /\ log' = Logged("recover", item, "quit_raises", << >>)
                /\ UNCHANGED <<driver, sessions, idx, file, saved, saveArg>>
           ELSE IF out = "raise"
           THEN /\ pc' = RecoverPc(q, out)
                /\ log' = Logged("recover", item, "raise", << >>)
                /\ UNCHANGED <<driver, sessions, idx, file, saved, saveArg>>
           ELSE IF out = "none"
           THEN /\ driver' = None
                /\ \E o \in SaveOutcomes(email_results) :
                       DoSave(email_results, o, RecoverPc(q, out),
                              Logged("recover", item, "none", << >>))
                /\ UNCHANGED <<sessions, idx>>
           ELSE /\ driver' = sessions + 1
                /\ sessions' = sessions + 1
                /\ idx' = ContinueIdx(idx)
                /\ pc' = RecoverPc(q, out)
                /\ log' = Logged("recover", item, "driver", << >>)
                /\ UNCHANGED <<file, saved, saveArg>>
    /\ UNCHANGED <<locations, email_results, exitStatus, loaded, nextRun>>

\* except Exception: save_checkpoint(email_results)
Except ==
    /\ UNCHANGED sideVars
    /\ pc = "except"
    /\ \E o \in SaveOutcomes(email_results) :
           DoSave(email_results, o, "finally", Logged("except", << >>, "caught", << >>))
    /\ UNCHANGED <<locations, idx, email_results, driver, sessions, live,
                   exitStatus, loaded, nextRun>>

\* a finally block that does not quit the driver
FinallyLive_Leaks(l, d) == l

\* the live sessions after  if driver: driver.quit()
FinallyLive(l, d) == IF d = None THEN l ELSE l \ {d}

\* finally: if driver: driver.quit(); then return email_results
Finally ==
    /\ UNCHANGED sideVars
    /\ pc = "finally"
    /\ live' = FinallyLive(live, driver)
    /\ IF driver = None
       THEN /\ pc' = "returned"
            /\ UNCHANGED log
       ELSE \E q \in {"ok", "raise"} :
            /\ pc' = IF q = "ok" THEN "returned" ELSE "raised"
            /\ log' = Logged("quit", << >>, q, << >>)
    /\ UNCHANGED <<locations, idx, file, email_results, driver, sessions,
                   exitStatus, loaded, saved, saveArg, nextRun>>

(***************************************************************************)
(* The process dies between two steps; the next run loads the checkpoint   *)
(***************************************************************************)
Crash ==
    /\ UNCHANGED sideVars
    /\ pc \in {"scrape", "init", "loop", "try", "recover", "except", "finally",
               "returned", "raised"}
    /\ pc' = "crashed"
    /\ UNCHANGED <<locations, idx, file, email_results, driver, sessions, live,
                   exitStatus, loaded, saved, saveArg, nextRun, log>>

NextRunLoad ==
    /\ UNCHANGED sideVars
    /\ pc = "crashed"
    /\ pc' = "reloaded"
    /\ nextRun' = Some(load_checkpoint(file, FALSE))
    /\ UNCHANGED <<locations, idx, file, email_results, driver, sessions, live,
                   exitStatus, loaded, saved, saveArg, log>>

Next ==
    \/ MainStart
    \/ MainEnd
    \/ LoadCheckpoint
    \/ InitDriver
    \/ LoopHead
    \/ Navigate
    \/ Recover
    \/ Except
    \/ Finally
    \/ Crash
    \/ NextRunLoad

Spec == Init /\ [][Next]_vars

(***************************************************************************)
(* Reading the history                                                     *)
(***************************************************************************)
Idx == 1..Len(log)
Gets == {n \in Idx : log[n].e = "get"}
Recovers == {n \in Idx : log[n].e = "recover"}
Saves == {n \in Idx : log[n].e = "save"}
Running == pc \notin {"crashed", "reloaded"}
PosOf(item) == CHOOSE n \in 1..Len(locations) : locations[n] = item

\* item k has an entry v in the Python value val
HasEntry(val, k, v) ==
    /\ val.kind = "dict"
    /\ k \in Keys(val)
    /\ DictGet(val, k) = v

\* the work item at position j was skipped, or is in the record
Settled(j) ==
    \/ Contains(email_results, locations[j])
    \/ \E n \in Idx : log[n].e = "skip" /\ log[n].item = locations[j]

(***************************************************************************)
(* C1: after a Navigate of item i that failed with a WebDriverException    *)
(* and a Recover that succeeded, the next Navigate is for the same item i, *)
(* and no item is navigated to while an earlier item of the sequence is    *)
(* neither in the record nor skipped.                                      *)
(***************************************************************************)
C1_RetriesSameItem ==
    /\ \A n \in Recovers : \A m \in Gets :
          (log[n].out = "driver" /\ m > n /\ ~\E g \in Gets : n < g /\ g < m)
              => log[m].item = log[n].item
    /\ Running =>
          \A m \in Gets : \A j \in 1..(PosOf(log[m].item) - 1) : Settled(j)

(***************************************************************************)
(* C2: after a crash at any point, save_checkpoint included, the next      *)
(* run's load_checkpoint returns every entry of the last completed Save.   *)
(***************************************************************************)
C2_CrashKeepsSavedItems ==
    (pc = "reloaded" /\ saved.valid /\ saved.val.kind = "dict")
        => \A k \in Keys(saved.val) :
              HasEntry(nextRun.val, k, DictGet(saved.val, k))

(***************************************************************************)
(* C3: once an item was navigated to and its save completed, reloading     *)
(* the file returns its ResultSet under its key for the rest of the run.   *)
(***************************************************************************)
C3_WriteThrough ==
    Running =>
        \A n \in Gets :
            (log[n].out = "ok" /\ n + 1 \in Saves /\ log[n + 1].out = "ok")
                => HasEntry(load_checkpoint(file, FALSE), log[n].item,
                            Extract(log[n].page))

(***************************************************************************)
(* C4: an item whose key is in the loaded record is never navigated to,    *)
(* and its ResultSet stays as loaded in memory and in every Save.          *)
(***************************************************************************)
C4_IdempotentSkip ==
    (loaded.valid /\ loaded.val.kind = "dict") =>
        \A k \in Keys(loaded.val) :
            /\ \A n \in Gets : log[n].item # k
            /\ HasEntry(email_results, k, DictGet(loaded.val, k))
            /\ saveArg.valid => HasEntry(saveArg.val, k, DictGet(loaded.val, k))

\* a run that skipped a loaded item, processed another one and saved
C4_Witness ==
    /\ pc = "returned"
    /\ loaded.val = OldRecord
    /\ \E n \in Idx : log[n].e = "skip" /\ log[n].item = Austin
    /\ \E n \in Gets : log[n].out = "ok"
    /\ saved.valid

(***************************************************************************)
(* C5: load_checkpoint returns an empty record whenever the file is        *)
(* absent, empty or not the JSON text of a mapping.                        *)
(***************************************************************************)
IsMapping(f) ==
    /\ f.exists
    /\ json_loads(f.toks).ok
    /\ json_loads(f.toks).val.kind = "dict"

C5_LoadEmptyUnlessMapping ==
    (pc = "init" /\ ~IsMapping(file))
        => (loaded.val.kind = "dict" /\ loaded.val.items = << >>)

(***************************************************************************)
(* C6: when the Navigate of an item fails with a WebDriverException and    *)
(* the Recover that follows fails (no session, or session creation         *)
(* raises), that Recover is the only one for the failure, the record is    *)
(* saved without an entry for the item, and no Navigate follows.           *)
(***************************************************************************)
FailedRecovers == {n \in Recovers : log[n].out \in {"none", "raise"}}

C6_SingleRecoveryThenAbort ==
    \A n \in FailedRecovers :
        /\ n - 1 \in Gets
        /\ log[n - 1].out = "wde"
        /\ log[n - 1].item = log[n].item
        /\ \A m \in Gets \cup Recovers : m <= n
        /\ ~Contains(email_results, log[n].item)
        /\ pc \in {"finally", "returned", "raised", "exited"} =>
              /\ \E m \in Saves : m > n
              /\ saveArg = Some(email_results)

\* a run that ended after a failed Recover with items left over
C6_Witness ==
    /\ pc = "returned"
    /\ FailedRecovers # {}
    /\ idx < Len(locations)
    /\ Keys(email_results) # {}

(***************************************************************************)
(* C7: when scrape_google_emails returns or raises, quit() has been        *)
(* called on every session that was created.                               *)
(***************************************************************************)
C7_NoSessionLeftLive ==
    pc \in {"returned", "raised", "exited"} => live = {}

\* the three exit paths, each with a session that had been created
C7_WitnessNormal ==
    /\ pc = "returned"
    /\ sessions = 2
    /\ idx > Len(locations)

C7_WitnessAbort == pc = "returned" /\ sessions = 1 /\ FailedRecovers # {}

C7_WitnessException ==
    /\ pc \in {"returned", "raised"}
    /\ sessions = 1
    /\ \E n \in Gets : log[n].out = "other"

C7_Witness == C7_WitnessNormal \/ C7_WitnessAbort \/ C7_WitnessException

(***************************************************************************)
(* C8 as stated: every failure in Navigate, of whatever exception type,    *)
(* is followed by one Recover, and a run that started its loop leaves      *)
(* work items unprocessed only after a failed Recover.                     *)
(***************************************************************************)
LoopStarted == \E n \in Idx : log[n].e = "create" /\ log[n].out = "driver"
StoppedEarly ==
    /\ pc \in {"finally", "returned", "raised", "exited"}
    /\ LoopStarted
    /\ idx <= Len(locations)

C8_OnlyFailedRecoverStops ==
    /\ \A n \in Gets :
          (log[n].out # "ok" /\ n < Len(log)) => n + 1 \in Recovers
    /\ StoppedEarly => FailedRecovers # {}

(***************************************************************************)
(* C8 amended: a WebDriverException in Navigate is followed by exactly one *)
(* Recover, after a successful Recover the loop goes on, and a run that    *)
(* started its loop leaves work items unprocessed only after a Recover     *)
(* that failed (quit() or the session creation raised, or no session) or   *)
(* after an exception in the per-item try block that is not a              *)
(* WebDriverException.                                                     *)
(***************************************************************************)
OtherException(n) ==
    /\ n \in Gets
    /\ \/ log[n].out = "other"
       \/ log[n].out = "ok" /\ loaded.val.kind = "list"

C8_StopsOnlyOnFailedRecoverOrOtherException ==
    /\ \A n \in Gets :
          (log[n].out = "wde" /\ n < Len(log)) => n + 1 \in Recovers
    /\ \A n \in Recovers :
          /\ n - 1 \in Gets /\ log[n - 1].out = "wde"
          /\ (log[n].out = "driver" /\ n = Len(log) /\ Running)
                => (pc \in {"loop", "try"} \/ idx > Len(locations))
          /\ (log[n].out = "driver" /\ n < Len(log))
                => log[n + 1].e \in {"get", "skip", "quit"}
    /\ StoppedEarly =>
          \/ \E n \in Recovers : log[n].out # "driver"
          \/ \E n \in Gets : OtherException(n)

\* a Recover succeeded and the loop went on to navigate to another item
C8_Witness ==
    \E n \in Recovers : \E m \in Gets :
        log[n].out = "driver" /\ m > n /\ log[m].out = "ok"

(***************************************************************************)
(* C9: the script exits with success after a normal run and with another   *)
(* status when a startup input is missing, the first session cannot be     *)
(* created or a Recover fails; after a startup failure no Navigate was     *)
(* attempted.                                                              *)
(***************************************************************************)
StartupFailure ==
    \E n \in Idx :
        \/ log[n].e = "main" /\ log[n].out = "missing_input"
        \/ log[n].e = "create" /\ log[n].out # "driver"

C9_ExitStatus ==
    pc = "exited" =>
        /\ (StartupFailure \/ FailedRecovers # {}) => exitStatus # 0
        /\ StartupFailure => Gets = {}
        /\ (LoopStarted /\ idx > Len(locations) /\ \A n \in Idx : log[n].out \in {"ok", "driver", "skip"})
              => exitStatus = 0

(***************************************************************************)
(* C10: a run from an empty checkpoint without any failure returns a       *)
(* record with exactly one key per work item, in order, each mapped to the *)
(* sorted distinct matches of the page served for it; an item without a    *)
(* match has the empty ResultSet.                                          *)
(***************************************************************************)
ExpectedMatches(page) ==
    IF page = PageAX THEN <<a_x_com>>
    ELSE IF page = PageTwo THEN <<a_x_com, b_y_org>>
    ELSE << >>

NoFailure == \A n \in Idx : log[n].out \in {"ok", "driver"}

C10_EndToEnd ==
    (pc = "returned" /\ loaded.val = EmptyDict /\ NoFailure) =>
        /\ email_results.kind = "dict"
        /\ Len(email_results.items) = Len(locations)
        /\ \A j \in 1..Len(locations) : email_results.items[j][1] = locations[j]
        /\ \A n \in Gets :
              HasEntry(email_results, log[n].item, ExpectedMatches(log[n].page))
        /\ \A j \in 1..Len(locations) : \E n \in Gets : log[n].item = locations[j]

\* ["Austin", "Dallas"] gives {"Austin": ["a@x.com"], "Dallas": []}
C10_Witness ==
    /\ pc = "returned"
    /\ NoFailure
    /\ locations = <<Austin, Dallas>>
    /\ loaded.val = EmptyDict
    /\ email_results = PyDict(<< <<Austin, <<a_x_com>> >>, <<Dallas, << >> >> >>)

(***************************************************************************)
(* The scroll loop on its own (aslocation.py 142-150, keyword001.py        *)
(* 124-132): the page answers the scrollHeight measurements with heights   *)
(***************************************************************************)
\* most measurements a page of the model answers
MaxMeasures == 4

Extents == {100, 250, 400}

MainIdle ==
    /\ pc = "idle" /\ locations = << >> /\ idx = 1 /\ file = NoFile
    /\ email_results = EmptyDict /\ driver = None /\ sessions = 0
    /\ live = {} /\ exitStatus = -1 /\ loaded = NoValue /\ saved = NoValue
    /\ saveArg = NoValue /\ nextRun = NoValue /\ log = << >>

InitScroll ==
    /\ MainIdle /\ ExtractIdle /\ LoaderIdle
    /\ spc = "start"
    /\ heights \in UNION {[1..n -> Extents] : n \in 1..MaxMeasures}
    /\ measured = 0
    /\ scrolls = 0
    /\ last_height = 0
    /\ new_height = 0

\* a loop that also stops when the page got shorter
ScrollStable_NoGrowth(new, last) == new <= last

\* if new_height == last_height: break
ScrollStable(new, last) == new = last

\* last_height = driver.execute_script("return document.body.scrollHeight")
ScrollFirst ==
    /\ spc = "start"
    /\ last_height' = heights[1]
    /\ measured' = 1
    /\ spc' = "loop"
    /\ UNCHANGED <<heights, scrolls, new_height, mainVars, extractVars, loaderVars>>

\* one pass of while True: scrollTo, measure, compare, last_height = new_height
ScrollStep ==
    /\ spc = "loop"
    /\ measured < Len(heights)
    /\ scrolls' = scrolls + 1
    /\ new_height' = heights[measured + 1]
    /\ measured' = measured + 1
    /\ IF ScrollStable(heights[measured + 1], last_height)
       THEN /\ spc' = "done"
            /\ UNCHANGED last_height
       ELSE /\ spc' = "loop"
            /\ last_height' = heights[measured + 1]
    /\ UNCHANGED <<heights, mainVars, extractVars, loaderVars>>

\* execute_script raises: the loop is left through the exception
ScrollRaises ==
    /\ spc \in {"start", "loop"}
    /\ spc' = "raised"
    /\ UNCHANGED <<heights, measured, scrolls, last_height, new_height,
                   mainVars, extractVars, loaderVars>>

NextScroll ==
    \/ ScrollFirst
    \/ ScrollStep
    \/ ScrollRaises

SpecScroll == InitScroll /\ [][NextScroll]_vars

(***************************************************************************)
(* C11: the scroll loop measures once, then repeats (scrollTo, measure);   *)
(* it ends exactly at the first measurement equal to the one before, so    *)
(* the scrollTo calls are as many as the measurements after the first;     *)
(* the extents 100, 250, 250 take exactly 2 scrollTo calls; as long as no  *)
(* two consecutive measurements are equal the loop has not ended.          *)
(***************************************************************************)
C11_ScrollTermination ==
    /\ spc \in {"loop", "done"} => scrolls = measured - 1
    /\ spc = "done" =>
          /\ measured >= 2
          /\ heights[measured] = heights[measured - 1]
          /\ \A k \in 2..(measured - 1) : heights[k] # heights[k - 1]
    /\ spc = "loop" =>
          /\ \A k \in 2..measured : heights[k] # heights[k - 1]
          /\ last_height = heights[measured]
    /\ (spc = "done" /\ heights = <<100, 250, 250>>) => scrolls = 2

\* the page with extents 100, 250, 250 after the loop ended
C11_Witness ==
    /\ spc = "done"
    /\ heights = <<100, 250, 250>>
    /\ scrolls = 2
    /\ measured = 3

\* a page whose extent changed at each of MaxMeasures measurements: the loop
\* is still running
C11_WitnessNoCap == spc = "loop" /\ measured = MaxMeasures /\ scrolls = MaxMeasures - 1

(***************************************************************************)
(* C12: a save_checkpoint that fails after an item was processed does not  *)
(* end the run: the record in memory keeps the entry just computed and     *)
(* the loop goes on with the next work item.                               *)
(***************************************************************************)
FailedItemSaves ==
    {n \in Saves : log[n].out \in {"open_fails", "write_fails"} /\ n - 1 \in Gets}

C12_SaveFailureDoesNotAbort ==
    \A n \in FailedItemSaves :
        LET item == log[n - 1].item
            p    == PosOf(item)
        IN  /\ log[n - 1].out = "ok"
            /\ HasEntry(email_results, item, Extract(log[n - 1].page))
            /\ (n = Len(log) /\ Running) =>
                  /\ idx = p + 1
                  /\ (pc \in {"loop", "try"} \/ idx > Len(locations))
            /\ n < Len(log) =>
                  IF p < Len(locations)
                  THEN /\ log[n + 1].e \in {"get", "skip"}
                       /\ log[n + 1].item = locations[p + 1]
                  ELSE log[n + 1].e = "quit"

\* a save failed and the next item was processed after it
C12_Witness ==
    \E n \in FailedItemSaves : \E m \in Gets :
        /\ m > n
        /\ log[m].out = "ok"
        /\ Contains(email_results, log[n - 1].item)
        /\ Contains(email_results, log[m].item)

(***************************************************************************)
(* The extraction step on its own (aslocation.py 152-155, keyword001.py    *)
(* 134-136), on page sources put together from a few fragments.  A set has *)
(* no order of its own: list(emails) is any enumeration of it.             *)
(***************************************************************************)
\* most fragments in a page source of the model
MaxFrags == 3

foo_bar_png == <<"f","o","o","@","b","a","r",".","p","n","g">>
x_y_jpeg    == <<"x","@","y",".","j","p","e","g">>
a_b_com     == <<"a","@","b",".","c","o","m">>
c_d_jpg     == <<"c","@","d",".","j","p","g">>
z_b_co      == <<"z","@","b",".","c","o">>

Fragments ==
    {a_b_com, foo_bar_png, x_y_jpeg, c_d_jpg, z_b_co,
     <<".","p","n","g">>, <<"x">>, <<" ">>}

RECURSIVE Flatten(_)
Flatten(fs) == IF fs = << >> THEN << >> ELSE Head(fs) \o Flatten(Tail(fs))

PageSources ==
    {Flatten(fs) : fs \in UNION {[1..n -> Fragments] : n \in 0..MaxFrags}}

\* list(S): the elements of the set in some order
Enumerations(S) ==
    {l \in [1..Cardinality(S) -> S] :
        \A m, n \in 1..Cardinality(S) : m # n => l[m] # l[n]}

RECURSIVE InsertSorted(_, _)
InsertSorted(x, l) ==
    IF l = << >> THEN <<x>>
    ELSE IF StrLess(x, Head(l)) THEN <<x>> \o l
    ELSE <<Head(l)>> \o InsertSorted(x, Tail(l))

\* a sort that returns the list as it came
SortList_AsIs(l) == l

\* sorted(l) for a list of distinct str
RECURSIVE SortList(_)
SortList(l) ==
    IF l = << >> THEN << >>
    ELSE InsertSorted(Head(l), SortList(Tail(l)))

InitExtract ==
    /\ MainIdle /\ ScrollIdle /\ LoaderIdle
    /\ epc = "page"
    /\ page_html \in PageSources
    /\ emails = << >>

\* emails = set(re.findall(..)); email_results[..] = sorted(list(emails))
ExtractStep ==
    /\ epc = "page"
    /\ \E l \in Enumerations(SeqToSet(FindAll(page_html, 1))) :
           emails' = SortList(l)
    /\ epc' = "done"
    /\ UNCHANGED <<page_html, mainVars, scrollVars, loaderVars>>

NextExtract == ExtractStep

SpecExtract == InitExtract /\ [][NextExtract]_vars

(***************************************************************************)
(* C13: the ResultSet of a page source is the same whatever order the set  *)
(* of matches is listed in, it is in ascending str order and it has no     *)
(* duplicates.                                                             *)
(***************************************************************************)
C13_ExtractionDeterminism ==
    epc = "done" =>
        /\ \A m, n \in 1..Len(emails) : m < n => StrLess(emails[m], emails[n])
        /\ SeqToSet(emails) = SeqToSet(FindAll(page_html, 1))
        /\ emails = Extract(page_html)

\* two matches found in descending order come out ascending
C13_Witness ==
    /\ epc = "done"
    /\ page_html = z_b_co \o <<" ">> \o a_b_com
    /\ emails = <<a_b_com, z_b_co>>

\* a match found twice comes out once
C13_WitnessDuplicate ==
    /\ epc = "done"
    /\ FindAll(page_html, 1) = <<z_b_co, z_b_co>>
    /\ emails = <<z_b_co>>

(***************************************************************************)
(* C14: the extraction drops exactly the local-part@domain.tld candidates  *)
(* whose last label is exactly png, jpg or jpeg and keeps every other      *)
(* candidate; foo@bar.png and x@y.jpeg give no match, a@b.com gives        *)
(* a@b.com.                                                                *)
(***************************************************************************)
ImageLabels == {<<"p","n","g">>, <<"j","p","g">>, <<"j","p","e","g">>}

\* the pattern without the lookahead: the candidates
CandidateEnd(text, s) ==
    LET le == RunEnd(text, s, LocalChars) IN
    IF le < s \/ le + 1 > Len(text) \/ text[le + 1] # "@" THEN 0
    ELSE LET ds   == le + 2
             dmax == RunEnd(text, ds, DomainChars)
             cand == {de \in ds..(dmax - 1) :
                         /\ text[de + 1] = "."
                         /\ RunEnd(text, de + 2, Letters) >= de + 3}
         IN  IF cand = {} THEN 0
             ELSE RunEnd(text, SetMax(cand) + 2, Letters)

RECURSIVE Candidates(_, _)
Candidates(text, pos) ==
    LET starts == {s \in pos..Len(text) : CandidateEnd(text, s) # 0} IN
    IF starts = {} THEN << >>
    ELSE LET s == SetMin(starts)
             e == CandidateEnd(text, s)
         IN  <<SubSeq(text, s, e)>> \o Candidates(text, e + 1)

\* the letters after the last dot
LastLabel(c) ==
    LET d == SetMax({n \in 1..Len(c) : c[n] = "."}) IN SubSeq(c, d + 1, Len(c))

C14_ExclusionExact ==
    epc = "done" =>
        /\ emails = Sorted({c \in SeqToSet(Candidates(page_html, 1)) :
                               LastLabel(c) \notin ImageLabels})
        /\ page_html = foo_bar_png => emails = << >>
        /\ page_html = x_y_jpeg => emails = << >>
        /\ page_html = a_b_com => emails = <<a_b_com>>

(***************************************************************************)
(* C15: when driver.quit() of the failed session raises in the handler,    *)
(* the exception is not propagated: a new session is still created and     *)
(* the loop goes on.                                                       *)
(***************************************************************************)
QuitFailures == {n \in Recovers : log[n].out = "quit_raises"}

C15_TeardownBestEffort ==
    \A n \in QuitFailures :
        /\ sessions >= 2
        /\ (n = Len(log) /\ Running) => pc \in {"loop", "try"} \/ idx > Len(locations)
        /\ n < Len(log) => log[n + 1].e \in {"get", "skip", "quit"}

(***************************************************************************)
(* C16: while a Navigate is in progress exactly one session is live, the   *)
(* one of the driver variable, and never are two sessions live: the        *)
(* handler creates the new session after quit() on the old one.            *)
(***************************************************************************)
C16_OneSessionLive ==
    /\ Cardinality(live) <= 1
    /\ pc = "try" => (driver # None /\ live = {driver})
    /\ \A n \in Gets : LoopStarted

\* a Navigate in progress on the session created by a Recover
C16_Witness ==
    /\ pc = "try"
    /\ sessions = 2
    /\ live = {2}
    /\ \E n \in Recovers : log[n].out = "driver"

(***************************************************************************)
(* The two Excel loaders on their own: load_locations_from_excel           *)
(* (aslocation.py 26-49) and load_keywords_from_excel (keyword001.py       *)
(* 26-44), on the cells of the column they read                            *)
(***************************************************************************)
\* most rows in the Excel column of the model
MaxRows == 3

\* a cell is empty (NaN in the DataFrame) or holds text
NaNCell == [nan |-> TRUE, s |-> << >>]
TextCell(s) == [nan |-> FALSE, s |-> s]
Cells ==
    {NaNCell, TextCell(<<"a">>), TextCell(<<"b">>), TextCell(<<" ","b">>),
     TextCell(<<"a"," ">>), TextCell(<<" ">>)}

\* .astype(str) of a cell: NaN becomes the text nan
AsStr(c) == IF c.nan THEN <<"n","a","n">> ELSE c.s

\* .str.strip()
Strip(s) ==
    LET inked == {n \in 1..Len(s) : s[n] # " "} IN
    IF inked = {} THEN << >> ELSE SubSeq(s, SetMin(inked), SetMax(inked))

\* .dropna()
RECURSIVE DropNa(_)
DropNa(col) ==
    IF col = << >> THEN << >>
    ELSE IF Head(col).nan THEN DropNa(Tail(col))
    ELSE <<Head(col)>> \o DropNa(Tail(col))

\* .astype(str).str.strip() of a column
StrStrip(col) == [n \in 1..Len(col) |-> Strip(AsStr(col[n]))]

RECURSIVE UniqueInOrder(_, _)
\* a comprehension that only removes the empty strings
UniqueInOrder_KeepsAll(l, seen) ==
    LET RECURSIVE NonEmpty(_)
        NonEmpty(t) == IF t = << >> THEN << >>
                       ELSE IF Head(t) = << >> THEN NonEmpty(Tail(t))
                       ELSE <<Head(t)>> \o NonEmpty(Tail(t))
    IN  NonEmpty(l)

\* [loc for loc in usa_locations if loc and not (loc in seen or seen.add(loc))]
UniqueInOrder(l, seen) ==
    IF l = << >> THEN << >>
    ELSE IF Head(l) = << >> \/ Head(l) \in seen THEN UniqueInOrder(Tail(l), seen)
    ELSE <<Head(l)>> \o UniqueInOrder(Tail(l), seen \cup {Head(l)})

\* load_locations_from_excel, when reading the file and the column worked
load_locations_from_excel(col) == UniqueInOrder(StrStrip(DropNa(col)), {})

\* load_keywords_from_excel: sorted(set(k for k in keywords if k))
load_keywords_from_excel(col) == Sorted(SeqToSet(StrStrip(col)) \ {<< >>})

InitLoader ==
    /\ MainIdle /\ ScrollIdle /\ ExtractIdle
    /\ lpc = "rows"
    /\ rows \in UNION {[1..n -> Cells] : n \in 0..MaxRows}
    /\ unique_items = << >>

\* the loader of aslocation.py; an exception of pandas is caught and gives []
LoadLocations ==
    /\ lpc = "rows"
    /\ \E readOk \in BOOLEAN :
           unique_items' = IF readOk THEN load_locations_from_excel(rows) ELSE << >>
    /\ lpc' = "locations"
    /\ UNCHANGED <<rows, mainVars, scrollVars, extractVars>>

\* the loader of keyword001.py; an exception of pandas is caught and gives []
LoadKeywords ==
    /\ lpc = "rows"
    /\ \E readOk \in BOOLEAN :
           unique_items' = IF readOk THEN load_keywords_from_excel(rows) ELSE << >>
    /\ lpc' = "keywords"
    /\ UNCHANGED <<rows, mainVars, scrollVars, extractVars>>

NextLoader ==
    \/ LoadLocations
    \/ LoadKeywords

SpecLoader == InitLoader /\ [][NextLoader]_vars

\* the texts of the column as the loader sees them
SourceTexts == IF lpc = "locations" THEN StrStrip(DropNa(rows)) ELSE StrStrip(rows)
FirstAt(v) == SetMin({n \in 1..Len(SourceTexts) : SourceTexts[n] = v})

NoDuplicatesNoEmpty ==
    /\ \A m, n \in 1..Len(unique_items) : m # n => unique_items[m] # unique_items[n]
    /\ \A n \in 1..Len(unique_items) : unique_items[n] # << >>
    /\ SeqToSet(unique_items) \subseteq SeqToSet(SourceTexts)
    /\ unique_items # << >> => SeqToSet(unique_items) = SeqToSet(SourceTexts) \ {<< >>}

InSourceOrder ==
    \A m, n \in 1..Len(unique_items) :
        m < n => FirstAt(unique_items[m]) < FirstAt(unique_items[n])

(***************************************************************************)
(* C17 as stated: both loaders return a sequence without duplicates and    *)
(* without empty strings, in the order of first occurrence in the source.  *)
(***************************************************************************)
C17_BothLoadersKeepSourceOrder ==
    lpc \in {"locations", "keywords"} => (NoDuplicatesNoEmpty /\ InSourceOrder)

(***************************************************************************)
(* C17 amended: both loaders return a sequence without duplicates and      *)
(* without empty strings; load_locations_from_excel keeps the order of     *)
(* first occurrence in the source, load_keywords_from_excel returns the    *)
(* keywords in ascending str order.                                        *)
(***************************************************************************)
C17_LoadersUniqueAndOrdered ==
    /\ lpc \in {"locations", "keywords"} => NoDuplicatesNoEmpty
    /\ lpc = "locations" => InSourceOrder
    /\ lpc = "keywords" =>
          \A m, n \in 1..Len(unique_items) :
              m < n => StrLess(unique_items[m], unique_items[n])

\* a column with a repeated and a padded cell, b before a, through both loaders
C17_WitnessLocations ==
    /\ lpc = "locations"
    /\ rows = <<TextCell(<<" ","b">>), TextCell(<<"a">>), TextCell(<<"b">>)>>
    /\ unique_items = << <<"b">>, <<"a">> >>

C17_WitnessKeywords ==
    /\ lpc = "keywords"
    /\ rows = <<TextCell(<<" ","b">>), TextCell(<<"a">>), TextCell(<<"b">>)>>
    /\ unique_items = << <<"a">>, <<"b">> >>

C17_Witness == C17_WitnessLocations \/ C17_WitnessKeywords

(***************************************************************************)
(* Termination of a run: a measure of the control state that every step    *)
(* of __main__ and scrape_google_emails makes smaller                      *)
(***************************************************************************)
\* the steps still ahead of the for loop at position i, at most
LoopRank(i) == 3 * (MaxItems + 1 - i)

Rank ==
    CASE pc \in {"exited", "reloaded"} -> 0
      [] pc = "crashed" -> 1
      [] pc \in {"returned", "raised"} -> 2
      [] pc = "finally" -> 3
      [] pc = "except" -> 4
      [] pc = "recover" -> 5 + LoopRank(idx)
      [] pc = "try" -> 6 + LoopRank(idx)
      [] pc = "loop" -> 7 + LoopRank(idx)
      [] pc = "init" -> 8 + LoopRank(1)
      [] pc = "scrape" -> 9 + LoopRank(1)
      [] pc = "main" -> 10 + LoopRank(1)
      [] OTHER -> 11 + LoopRank(1)

\* the work items that the loaded record does not contain
Unloaded == {j \in 1..Len(locations) : ~Contains(loaded.val, locations[j])}
NavigateFailures == {n \in Gets : log[n].out = "wde"}

NavigateBudget ==
    /\ loaded = NoValue => Gets = {}
    /\ loaded # NoValue => Cardinality(Gets) <= Cardinality(Unloaded)
    /\ Cardinality(Recovers) <= Cardinality(NavigateFailures)
    /\ idx <= Len(locations) + 1

RecordKeys(val) == IF val.kind = "dict" THEN Keys(val) ELSE SeqToSet(val.items)

\* the items whose driver.get and scroll loop completed in this run
Completed == {log[n].item : n \in {m \in Gets : log[m].out = "ok"}}
NotCompleted == {log[n].item : n \in {m \in Gets : log[m].out # "ok"}}

(***************************************************************************)
(* C19: once the checkpoint is loaded, the keys of the in-memory record    *)
(* are the loaded keys plus the items whose Navigate and scroll completed  *)
(* in this run; an item whose Navigate failed has no entry unless it was   *)
(* loaded; no loaded key is missing; every Save is given the whole record. *)
(***************************************************************************)
C19_RecordKeys ==
    loaded.valid =>
        /\ RecordKeys(email_results) = RecordKeys(loaded.val) \cup Completed
        /\ \A k \in NotCompleted \ RecordKeys(loaded.val) :
               k \notin RecordKeys(email_results)
        /\ RecordKeys(loaded.val) \subseteq RecordKeys(email_results)
        /\ saveArg.valid => saveArg.val = email_results

\* the same statement for a run whose checkpoint was loaded as a mapping
C19_RecordKeysOfMapping ==
    (loaded.valid /\ loaded.val.kind = "dict") => C19_RecordKeys

====
